---- MODULE Spec2Model ----
(***************************************************************************)
(* Snake (src/src/script.ts): the game state, the timed tick callback, the *)
(* keydown handler and the reset handler, as one state machine.            *)
(***************************************************************************)
EXTENDS Integers, Sequences, FiniteSets

\* ---------------------------------------------------------------- bounds
\* board width and height in units (the canvas attributes of the page)
WidthUnits == 6
HeightUnits == 2
\* Math.random() is modelled as r / RandRes for r in 0 .. RandRes-1
RandRes == 12
\* cap on the number of timer callbacks pending at once
MaxPending == 2
\* cap on the number of timer callbacks that fire within one game
MaxTicks == 4

\* ------------------------------------------------------------- constants
unitSize == 25
gameWidth == WidthUnits * unitSize
gameHeight == HeightUnits * unitSize

Rand == 0 .. (RandRes - 1)
Keys == {"ArrowLeft", "ArrowUp", "ArrowRight", "ArrowDown", "Enter"}

\* running .. snake are the globals of lines 12-24; pending is the number of
\* setTimeout callbacks armed and not yet fired.  History, read by the
\* properties only: ticks counts the callbacks fired since the last
\* gameStart, applied is the velocity the last of them moved by (<<0, 0>>
\* before the first), last records the handler that ran last, quiet tells
\* that the game began at load or by a reset in GameOver and has seen no key
\* since.
VARIABLES running, xVelocity, yVelocity, foodX, foodY, score, snake,
          pending, ticks, applied, last, quiet
vars == <<running, xVelocity, yVelocity, foodX, foodY, score, snake,
          pending, ticks, applied, last, quiet>>

\* ------------------------------------------------------------ helpers
Seg(px, py) == [x |-> px, y |-> py]

\* the literal of lines 18-24
startSnake ==
    << Seg(unitSize * 4, 0), Seg(unitSize * 3, 0), Seg(unitSize * 2, 0),
       Seg(unitSize, 0), Seg(0, 0) >>

\* the reset literal left empty
resetSnake_empty == << >>

\* the reset literal with the head segment missing
resetSnake_short ==
    << Seg(unitSize * 3, 0), Seg(unitSize * 2, 0), Seg(unitSize, 0), Seg(0, 0) >>

\* the literal of lines 176-182
resetSnake ==
    << Seg(unitSize * 4, 0), Seg(unitSize * 3, 0), Seg(unitSize * 2, 0),
       Seg(unitSize, 0), Seg(0, 0) >>

\* Math.round((r/RandRes * (max - min) + min) / unitSize) * unitSize,
\* Math.round(v) being floor(v + 1/2)
randomFood(min, max, r) ==
    ((2 * (r * (max - min) + min * RandRes) + RandRes * unitSize)
        \div (2 * RandRes * unitSize)) * unitSize

createFood(rx, ry) ==
    [x |-> randomFood(0, gameWidth - unitSize, rx),
     y |-> randomFood(0, gameWidth - unitSize, ry)]

\* every position createFood can produce
Foods == { createFood(rx, ry) : rx, ry \in Rand }

\* the y velocity is left out of the new head
headOfSnake_dropsY(s, vx, vy) == Seg(s[1].x + vx, s[1].y)

\* line 84
headOfSnake(s, vx, vy) == Seg(s[1].x + vx, s[1].y + vy)

\* Array.prototype.pop: the sequence without its last element
pop(s) == SubSeq(s, 1, Len(s) - 1)

\* line 86
eats(s, vx, vy, fx, fy) ==
    headOfSnake(s, vx, vy).x = fx /\ headOfSnake(s, vx, vy).y = fy

\* the score is not incremented on eating
moveSnake_noScore(s, vx, vy, fx, fy, sc, f) ==
    LET grown == <<headOfSnake(s, vx, vy)>> \o s
    IN  IF grown[1].x = fx /\ grown[1].y = fy
        THEN [snake |-> grown, score |-> sc, foodX |-> f.x, foodY |-> f.y]
        ELSE [snake |-> pop(grown), score |-> sc, foodX |-> fx, foodY |-> fy]

\* the tail is removed on every move, also after eating
moveSnake_alwaysPops(s, vx, vy, fx, fy, sc, f) ==
    LET grown == <<headOfSnake(s, vx, vy)>> \o s
    IN  IF grown[1].x = fx /\ grown[1].y = fy
        THEN [snake |-> pop(grown), score |-> sc + 1,
              foodX |-> f.x, foodY |-> f.y]
        ELSE [snake |-> pop(grown), score |-> sc, foodX |-> fx, foodY |-> fy]

\* moveSnake: the new snake, score and food, f being what createFood yields
moveSnake(s, vx, vy, fx, fy, sc, f) ==
    LET grown == <<headOfSnake(s, vx, vy)>> \o s
    IN  IF grown[1].x = fx /\ grown[1].y = fy
        THEN [snake |-> grown, score |-> sc + 1,
              foodX |-> f.x, foodY |-> f.y]
        ELSE [snake |-> pop(grown), score |-> sc, foodX |-> fx, foodY |-> fy]

\* the case of the top edge is missing from the switch
hitsWall_noTop(s) ==
    \/ s[1].x < 0
    \/ s[1].x >= gameWidth
    \/ s[1].y >= gameHeight

\* the top and left edges compared with <= instead of <
hitsWall_edgeRows(s) ==
    \/ s[1].x <= 0
    \/ s[1].x >= gameWidth
    \/ s[1].y <= 0
    \/ s[1].y >= gameHeight

\* the right and bottom edges compared with > instead of >=
hitsWall_offByOne(s) ==
    \/ s[1].x < 0
    \/ s[1].x > gameWidth
    \/ s[1].y < 0
    \/ s[1].y > gameHeight

\* lines 139-152
hitsWall(s) ==
    \/ s[1].x < 0
    \/ s[1].x >= gameWidth
    \/ s[1].y < 0
    \/ s[1].y >= gameHeight

\* the y of a segment is compared with the x of the head
hitsSelf_yWithX(s) ==
    \E i \in 2 .. Len(s) : s[i].x = s[1].x /\ s[i].y = s[1].x

\* the loop stops one segment short of the tail
hitsSelf_skipsTail(s) ==
    \E i \in 2 .. (Len(s) - 1) : s[i].x = s[1].x /\ s[i].y = s[1].y

\* lines 153-157
hitsSelf(s) ==
    \E i \in 2 .. Len(s) : s[i].x = s[1].x /\ s[i].y = s[1].y

\* running is assigned the outcome of the test instead of being cleared
checkGameOver_assigns(s, run) == ~(hitsWall(s) \/ hitsSelf(s))

\* checkGameOver: the value of running after the call
checkGameOver(s, run) ==
    IF hitsWall(s) \/ hitsSelf(s) THEN FALSE ELSE run

\* ArrowUp and ArrowDown set yVelocity and leave xVelocity as it was
changeDirection_keepsX(key, vx, vy) ==
    LET goingLeft == (vx = -unitSize)
        goingUp == (vy = -unitSize)
        goingRight == (vx = unitSize)
        goingDown == (vy = unitSize)
    IN  CASE key = "ArrowLeft" /\ ~goingRight -> <<-unitSize, 0>>
          [] key = "ArrowUp" /\ ~goingDown -> <<vx, -unitSize>>
          [] key = "ArrowRight" /\ ~goingLeft -> <<unitSize, 0>>
          [] key = "ArrowDown" /\ ~goingUp -> <<vx, unitSize>>
          [] OTHER -> <<vx, vy>>

\* a default case that stops the snake on a key that is no arrow
changeDirection_stopsOnOther(key, vx, vy) ==
    LET goingLeft == (vx = -unitSize)
        goingUp == (vy = -unitSize)
        goingRight == (vx = unitSize)
        goingDown == (vy = unitSize)
    IN  CASE key = "ArrowLeft" /\ ~goingRight -> <<-unitSize, 0>>
          [] key = "ArrowUp" /\ ~goingDown -> <<0, -unitSize>>
          [] key = "ArrowRight" /\ ~goingLeft -> <<unitSize, 0>>
          [] key = "ArrowDown" /\ ~goingUp -> <<0, unitSize>>
          [] key \in {"ArrowLeft", "ArrowUp", "ArrowRight", "ArrowDown"}
                -> <<vx, vy>>
          [] OTHER -> <<0, 0>>

\* ArrowLeft is accepted without the !goingRight test
changeDirection_leftUnguarded(key, vx, vy) ==
    LET goingLeft == (vx = -unitSize)
        goingUp == (vy = -unitSize)
        goingDown == (vy = unitSize)
    IN  CASE key = "ArrowLeft" -> <<-unitSize, 0>>
          [] key = "ArrowUp" /\ ~goingDown -> <<0, -unitSize>>
          [] key = "ArrowRight" /\ ~goingLeft -> <<unitSize, 0>>
          [] key = "ArrowDown" /\ ~goingUp -> <<0, unitSize>>
          [] OTHER -> <<vx, vy>>

\* changeDirection: the velocity after the call
changeDirection(key, vx, vy) ==
    LET goingLeft == (vx = -unitSize)
        goingUp == (vy = -unitSize)
        goingRight == (vx = unitSize)
        goingDown == (vy = unitSize)
    IN  CASE key = "ArrowLeft" /\ ~goingRight -> <<-unitSize, 0>>
          [] key = "ArrowUp" /\ ~goingDown -> <<0, -unitSize>>
          [] key = "ArrowRight" /\ ~goingLeft -> <<unitSize, 0>>
          [] key = "ArrowDown" /\ ~goingUp -> <<0, unitSize>>
          [] OTHER -> <<vx, vy>>

\* nextTick: the number of callbacks it adds to the timer queue; its else
\* branch, displayGameOver, assigns false to a running that is false already
nextTick(run) == IF run THEN 1 ELSE 0

\* the record of the handler that ran last: which one, whether it ate, and
\* the value of running when it started
Note(op, ate, was) == [op |-> op, ate |-> ate, wasRunning |-> was]

\* ------------------------------------------------------------ state machine
\* module load, lines 12-27: the declarations, then gameStart()
Init ==
    /\ running = TRUE
    /\ xVelocity = unitSize
    /\ yVelocity = 0
    /\ \E f \in Foods : foodX = f.x /\ foodY = f.y
    /\ score = 0
    /\ snake = startSnake
    /\ pending = nextTick(TRUE)
    /\ ticks = 0
    /\ applied = <<0, 0>>
    /\ last = Note("gameStart", FALSE, FALSE)
    /\ quiet = TRUE

\* the setTimeout callback of lines 42-49, one of the pending ones fires
Tick ==
    /\ pending > 0
    /\ ticks < MaxTicks
    /\ ticks' = ticks + 1
    /\ \E f \in (IF eats(snake, xVelocity, yVelocity, foodX, foodY)
                  THEN Foods ELSE {Seg(foodX, foodY)}) :
          LET m == moveSnake(snake, xVelocity, yVelocity, foodX, foodY,
                             score, f)
              run == checkGameOver(m.snake, running)
          IN  /\ snake' = m.snake
              /\ score' = m.score
              /\ foodX' = m.foodX
              /\ foodY' = m.foodY
              /\ running' = run
              /\ pending' = (pending - 1) + nextTick(run)
    /\ applied' = <<xVelocity, yVelocity>>
    /\ last' = Note("tick", eats(snake, xVelocity, yVelocity, foodX, foodY),
                    running)
    /\ UNCHANGED <<xVelocity, yVelocity, quiet>>

\* the keydown listener of line 25 runs changeDirection
keydown(key) ==
    /\ xVelocity' = changeDirection(key, xVelocity, yVelocity)[1]
    /\ yVelocity' = changeDirection(key, xVelocity, yVelocity)[2]
    /\ last' = Note("changeDirection", FALSE, running)
    /\ quiet' = FALSE
    /\ UNCHANGED <<running, foodX, foodY, score, snake, pending, ticks, applied>>

\* the click listener, lines 172-184, gameStart() included
resetGame ==
    /\ pending < MaxPending
    /\ score' = 0
    /\ xVelocity' = unitSize
    /\ yVelocity' = 0
    /\ snake' = resetSnake
    /\ running' = TRUE
    /\ \E f \in Foods : foodX' = f.x /\ foodY' = f.y
    /\ pending' = pending + nextTick(TRUE)
    /\ ticks' = 0
    /\ applied' = <<0, 0>>
    /\ last' = Note("resetGame", FALSE, running)
    /\ quiet' = ~running

Next ==
    \/ Tick
    \/ \E key \in Keys : keydown(key)
    \/ resetGame

Spec == Init /\ [][Next]_vars

\* ------------------------------------------------------------ properties

\* C1: in every reachable state at most one tick callback is pending.
\* resetGame while a callback is pending adds a second one.
C1_AtMostOnePending == pending <= 1

\* C2: once running is false, and until the next reset, no tick fires and
\* snake, score and food stay unchanged.
C2_TickOnlyWhileRunning ==
    [][(~running /\ last'.op # "resetGame")
          => (last'.op # "tick" /\ UNCHANGED <<snake, score, foodX, foodY>>)]_vars

\* C3: within one game, the velocity a tick applies is never the exact
\* reverse of the velocity the preceding tick applied.
C3_NoReversal ==
    [][(last'.op = "tick" /\ applied # <<0, 0>>)
          => ~(applied'[1] = -applied[1] /\ applied'[2] = -applied[2])]_vars

\* the unit vector of an arrow key, <<0, 0>> for any other key
Dir(key) ==
    CASE key = "ArrowLeft" -> <<-unitSize, 0>>
      [] key = "ArrowUp" -> <<0, -unitSize>>
      [] key = "ArrowRight" -> <<unitSize, 0>>
      [] key = "ArrowDown" -> <<0, unitSize>>
      [] OTHER -> <<0, 0>>

OutOfBoard(seg) ==
    seg.x < 0 \/ seg.x >= gameWidth \/ seg.y < 0 \/ seg.y >= gameHeight

OnBody(s) == \E i \in 2 .. Len(s) : s[i] = s[1]

\* what C4 states a call with this key makes of the velocity <<vx, vy>>
Turned(key, vx, vy) ==
    IF Dir(key) # <<0, 0>> /\ Dir(key) # <<-vx, -vy>>
    THEN Dir(key)
    ELSE <<vx, vy>>

\* C4: one changeDirection call sets the velocity to the arrow key's unit
\* vector unless that is the reverse of the current velocity; a reverse key or
\* a key that is no arrow leaves it unchanged; snake, food, score and running
\* are unchanged in every case.
C4_ChangeDirection ==
    /\ [](\A key \in Keys :
            changeDirection(key, xVelocity, yVelocity)
               = Turned(key, xVelocity, yVelocity))
    /\ [][last'.op = "changeDirection"
            => /\ \E key \in Keys :
                     <<xVelocity', yVelocity'>> = Turned(key, xVelocity, yVelocity)
               /\ UNCHANGED <<snake, foodX, foodY, score, running>>]_vars

\* a key has turned the snake upward after a tick that moved it right
C4_Witness ==
    /\ last.op = "changeDirection"
    /\ applied = <<unitSize, 0>>
    /\ <<xVelocity, yVelocity>> = <<0, -unitSize>>

\* C5: a tick run while Running whose move puts the head outside the board
\* ends with running false and arms no further tick.
C5_WallEndsGame ==
    [][(last'.op = "tick" /\ running /\ OutOfBoard(snake'[1]))
         => (~running' /\ pending' = pending - 1)]_vars

\* a tick run while Running has moved the head onto x = board width
C5_Witness ==
    /\ last.op = "tick"
    /\ last.wasRunning
    /\ snake[1].x = gameWidth
    /\ ~running

\* C6: a tick run while Running after which the head coincides with a
\* segment of index >= 1 ends with running false.
C6_SelfCollisionEndsGame ==
    [][(last'.op = "tick" /\ running /\ OnBody(snake')) => ~running']_vars

\* a tick run while Running has moved the head onto the body, inside the board
C6_Witness ==
    /\ last.op = "tick"
    /\ last.wasRunning
    /\ OnBody(snake)
    /\ ~OutOfBoard(snake[1])
    /\ ~running

\* C7: a tick run while Running grows the snake by one when the new head is
\* on the food and leaves its length unchanged otherwise.
C7_LengthAfterTick ==
    [][(last'.op = "tick" /\ running)
         => Len(snake') = Len(snake)
               + (IF snake'[1] = Seg(foodX, foodY) THEN 1 ELSE 0)]_vars

\* a tick run while Running has eaten: six segments, score one
C7_Witness ==
    /\ last.op = "tick"
    /\ last.wasRunning
    /\ last.ate
    /\ Len(snake) = 6
    /\ score = 1

\* C8: a tick prepends old head + velocity; off the food it removes the last
\* segment and keeps score and food; on the food it removes nothing, adds one
\* to the score and draws a new food position; from the start snake with
\* velocity (25,0) this gives the two snakes of the scenario.
C8_MoveIsExact ==
    [][last'.op = "tick"
         => LET h == Seg(snake[1].x + xVelocity, snake[1].y + yVelocity)
            IN  /\ IF h # Seg(foodX, foodY)
                    THEN /\ snake' = <<h>> \o SubSeq(snake, 1, Len(snake) - 1)
                         /\ UNCHANGED <<score, foodX, foodY>>
                    ELSE /\ snake' = <<h>> \o snake
                         /\ score' = score + 1
                         /\ foodX' \in { n * unitSize : n \in 0 .. (WidthUnits - 1) }
                         /\ foodY' \in { n * unitSize : n \in 0 .. (WidthUnits - 1) }
                /\ (/\ snake = <<Seg(100, 0), Seg(75, 0), Seg(50, 0),
                                  Seg(25, 0), Seg(0, 0)>>
                     /\ xVelocity = 25 /\ yVelocity = 0 /\ score = 0)
                   => IF Seg(foodX, foodY) # Seg(125, 0)
                      THEN /\ snake' = <<Seg(125, 0), Seg(100, 0), Seg(75, 0),
                                         Seg(50, 0), Seg(25, 0)>>
                           /\ score' = 0
                      ELSE /\ snake' = <<Seg(125, 0), Seg(100, 0), Seg(75, 0),
                                         Seg(50, 0), Seg(25, 0), Seg(0, 0)>>
                           /\ score' = 1]_vars

\* the scenario's tick from the start state with the food on (125,0)
C8_Witness ==
    /\ last.op = "tick"
    /\ last.ate
    /\ snake = <<Seg(125, 0), Seg(100, 0), Seg(75, 0),
                 Seg(50, 0), Seg(25, 0), Seg(0, 0)>>
    /\ score = 1

\* C9: after resetGame, whatever the state it was invoked in, score is 0, the
\* velocity is (unit, 0), the snake is the five start segments, running is
\* true and the food is a generated grid position: the configuration of the
\* initial gameStart.
C9_ResetRestoresStart ==
    last.op = "resetGame"
       => /\ score = 0
          /\ xVelocity = unitSize /\ yVelocity = 0
          /\ snake = <<Seg(4 * unitSize, 0), Seg(3 * unitSize, 0),
                       Seg(2 * unitSize, 0), Seg(unitSize, 0), Seg(0, 0)>>
          /\ snake = startSnake
          /\ running
          /\ foodX \in { n * unitSize : n \in 0 .. (WidthUnits - 1) }
          /\ foodY \in { n * unitSize : n \in 0 .. (WidthUnits - 1) }

\* resetGame has run in the GameOver state
C9_Witness ==
    /\ last.op = "resetGame"
    /\ ~last.wasRunning
    /\ running
    /\ score = 0
    /\ snake = startSnake

\* C10: running goes from false to true only by resetGame.
C10_OnlyResetLeavesGameOver ==
    [][(~running /\ running') => last'.op = "resetGame"]_vars

\* a tick has run in GameOver and left the head on a free cell of the board,
\* and running is still false
C10_Witness ==
    /\ last.op = "tick"
    /\ ~last.wasRunning
    /\ ~OutOfBoard(snake[1])
    /\ ~OnBody(snake)
    /\ ~running

\* C11: the food lies on the board and on the grid: foodX is a unit multiple
\* with 0 <= foodX <= width - unit and foodY a unit multiple with
\* 0 <= foodY <= height - unit, also on a board wider than it is high.
C11_FoodOnBoard ==
    /\ foodX \in { n * unitSize : n \in 0 .. (WidthUnits - 1) }
    /\ foodY \in { n * unitSize : n \in 0 .. (HeightUnits - 1) }

\* C12: the velocity is always one of (+u,0), (-u,0), (0,+u), (0,-u), never
\* (0,0) and never diagonal, whatever ticks, keys and resets have happened.
C12_VelocityIsUnitStep ==
    <<xVelocity, yVelocity>> \in { <<unitSize, 0>>, <<-unitSize, 0>>,
                                   <<0, unitSize>>, <<0, -unitSize>> }

\* a key was handled in GameOver and the velocity is vertical
C12_Witness ==
    /\ last.op = "changeDirection"
    /\ ~running
    /\ xVelocity = 0
    /\ yVelocity = unitSize

\* C13: the snake has at least one segment in every state, also inside a
\* tick after the prepend and after the tail removal, so snake[0] is defined.
C13_SnakeNeverEmpty ==
    /\ Len(snake) >= 1
    /\ Len(<<headOfSnake(snake, xVelocity, yVelocity)>> \o snake) >= 1
    /\ Len(pop(<<headOfSnake(snake, xVelocity, yVelocity)>> \o snake)) >= 1

\* the budget of ticks of a game is used up without eating, five segments left
C13_Witness ==
    /\ last.op = "tick"
    /\ ticks >= 4
    /\ score = 0
    /\ Len(snake) = 5

\* C14: a direction input delivered in GameOver leaves the velocity, like all
\* other state, unchanged.
C14_NoInputInGameOver ==
    [][(last'.op = "changeDirection" /\ ~running)
          => UNCHANGED <<xVelocity, yVelocity, snake, foodX, foodY, score,
                         running, pending>>]_vars

\* C15: a tick run while Running after whose move the head is inside the
\* board and on no other segment ends with running still true and arms
\* exactly one next tick.
C15_GameOverOnlyOnCollision ==
    [][(/\ last'.op = "tick"
        /\ running
        /\ 0 <= snake'[1].x /\ snake'[1].x < gameWidth
        /\ 0 <= snake'[1].y /\ snake'[1].y < gameHeight
        /\ \A i \in 2 .. Len(snake') : snake'[i] # snake'[1])
          => (running' /\ pending' = (pending - 1) + 1)]_vars

\* a tick run while Running has moved the head right along the top row and
\* the game goes on with one callback pending
C15_Witness ==
    /\ last.op = "tick"
    /\ last.wasRunning
    /\ snake[1] = Seg(5 * unitSize, 0)
    /\ running
    /\ pending = 1

\* C16: while running is true every segment lies inside the board and the
\* segments are pairwise distinct; and in the state in which a tick has just
\* ended the game the head is outside the board or on another segment.
C16_RunningSnakeIsSound ==
    /\ running
          => /\ \A i \in 1 .. Len(snake) :
                   /\ 0 <= snake[i].x /\ snake[i].x < gameWidth
                   /\ 0 <= snake[i].y /\ snake[i].y < gameHeight
             /\ \A i, j \in 1 .. Len(snake) : i # j => snake[i] # snake[j]
    /\ (last.op = "tick" /\ last.wasRunning /\ ~running)
          => \/ snake[1].x < 0 \/ snake[1].x >= gameWidth
             \/ snake[1].y < 0 \/ snake[1].y >= gameHeight
             \/ \E i \in 2 .. Len(snake) : snake[i] = snake[1]

\* the only tick chain has just ended the game above the top edge
C16_Witness ==
    /\ last.op = "tick"
    /\ last.wasRunning
    /\ ~running
    /\ pending = 0
    /\ snake[1].y = -unitSize

\* C17: between operations the score equals the snake length minus the five
\* initial segments, whatever ticks, keys and resets have happened.
C17_ScoreIsGrowth == score = Len(snake) - 5

\* two ticks of one game have eaten: score two, seven segments
C17_Witness ==
    /\ last.op = "tick"
    /\ last.ate
    /\ score = 2
    /\ Len(snake) = 7

\* the distance of two segments along the x axis and along the y axis
AbsDiff(a, b) == IF a >= b THEN a - b ELSE b - a

\* C18: the snake is a connected chain on the grid: every coordinate is a
\* unit multiple and two consecutive segments differ by exactly one unit in
\* exactly one axis, after every tick and every reset.
C18_SnakeIsChain ==
    /\ \A i \in 1 .. Len(snake) :
          snake[i].x % unitSize = 0 /\ snake[i].y % unitSize = 0
    /\ \A i \in 1 .. (Len(snake) - 1) :
          \/ /\ AbsDiff(snake[i].x, snake[i + 1].x) = unitSize
             /\ snake[i].y = snake[i + 1].y
          \/ /\ AbsDiff(snake[i].y, snake[i + 1].y) = unitSize
             /\ snake[i].x = snake[i + 1].x

\* a tick has moved the head down after a turn: the chain has a corner
C18_Witness ==
    /\ last.op = "tick"
    /\ applied = <<0, unitSize>>
    /\ snake[1].y = snake[2].y + unitSize
    /\ snake[2].x = snake[3].x + unitSize

\* C19: a game begun at load or by a reset in GameOver that sees no key and
\* no reset runs right along the top row; the tick that brings the head to
\* x = board width, the (width/unit - 4)-th, sets running to false whatever
\* the food, and after it no tick is pending.
C19_QuietGameEnds ==
    quiet
       => /\ ticks < WidthUnits - 4
                => (running /\ snake[1] = Seg((4 + ticks) * unitSize, 0))
          /\ ticks = WidthUnits - 4 => snake[1] = Seg(gameWidth, 0)
          /\ ticks >= WidthUnits - 4 => (~running /\ pending = 0)

\* C20: when the food lies on a cell of the snake's body and a tick run while
\* Running moves the head onto it, that tick adds one to the score, keeps the
\* grown length, draws a new food and ends the game by self-collision.
C20_EatsThenCollides ==
    [][(/\ last'.op = "tick"
        /\ running
        /\ \E i \in 1 .. Len(snake) : snake[i] = Seg(foodX, foodY)
        /\ Seg(snake[1].x + xVelocity, snake[1].y + yVelocity)
              = Seg(foodX, foodY))
          => /\ score' = score + 1
             /\ Len(snake') = Len(snake) + 1
             /\ snake'[1] = Seg(foodX, foodY)
             /\ \E i \in 2 .. Len(snake') : snake'[i] = snake'[1]
             /\ foodX' \in { n * unitSize : n \in 0 .. (WidthUnits - 1) }
             /\ foodY' \in { n * unitSize : n \in 0 .. (WidthUnits - 1) }
             /\ ~running']_vars

\* the fourth tick of a game has brought the head back onto its start cell
\* around a square, has eaten there on a cell of the body, and the game is
\* over
C20_Witness ==
    /\ last.op = "tick"
    /\ last.wasRunning
    /\ last.ate
    /\ ticks = 4
    /\ snake[1] = Seg(4 * unitSize, 0)
    /\ snake[2] = Seg(4 * unitSize, unitSize)
    /\ score >= 1
    /\ Len(snake) = 5 + score
    /\ \E i \in 2 .. Len(snake) : snake[i] = snake[1]
    /\ 0 <= snake[1].x /\ snake[1].x < gameWidth
    /\ 0 <= snake[1].y /\ snake[1].y < gameHeight
    /\ ~running
====
